---- MODULE Spec2Model ----
(***************************************************************************)
(* Model of the `agent check <check_name>` command of the datadog-agent:   *)
(*   cmd/agent/app/check.go   checkCmd.RunE, runCheck, printMetrics        *)
(*                                                                         *)
(* Everything the command does that can be seen from outside (calls of the *)
(* check's Run, time.Sleep, printed lines) is appended to the trace `out`  *)
(* in program order.  The log level (check.go:64-77) changes nothing that  *)
(* is modelled here and is left out.                                       *)
(*                                                                         *)
(* Model of the check identities of pkg/collector/check/id.go: BuildID,    *)
(* IDToCheckName, with hash/fnv's 64-bit FNV-1 and fmt's %x computed on    *)
(* bytes.  Strings are sequences of one-character strings.                 *)
(*                                                                         *)
(* The specifications share the variables, and the first three the actions:*)
(*   Spec        the whole command, the aggregator ingesting beside it     *)
(*   SpecRun     one call of runCheck, for every value of the flags        *)
(*   SpecRender  one call of printMetrics, for every content of the buffer *)
(*   SpecID      one call of BuildID, then of IDToCheckName on its result  *)
(***************************************************************************)
EXTENDS Integers, Sequences, FiniteSets, TLC

(* ------------------------------------------------------------------ *)
(* Bounds of the model                                                 *)
(* ------------------------------------------------------------------ *)
\* largest --check-times given to runCheck alone (besides 5), and to the command
MaxTimes == 3
MaxCmdTimes == 2
\* most check instances GetChecksByNameForConfigs returns
MaxInst == 2
\* longest sequence of one category handed to printMetrics alone
MaxItems == 1
\* longest check name and extra ID, longest instance and initConfig, of BuildID
MaxStr == 2
MaxBytes == 1

(* ------------------------------------------------------------------ *)
(* Program constants                                                   *)
(* ------------------------------------------------------------------ *)
RateTimes == 2
RatePause == 1000
DefaultDelay == 100

\* values the --check-times flag is given (an int flag: any integer parses)
TimesValues == (-1 .. MaxTimes) \cup {5}
CmdTimesValues == -1 .. MaxCmdTimes
\* values the --pause flag is given, in ms
PauseValues == {-1, 0, 50, RatePause}
CmdPauseValues == {0, 50}
\* values the --delay flag is given, in ms
DelayValues == {DefaultDelay}

CheckNames == {"cpu", "disk"}
Loaders == {"core", "python"}

VARIABLES
    checkRate,    \* --check-rate
    checkTimes,   \* --check-times
    checkPause,   \* --pause
    checkDelay,   \* --delay
    formatJSON,   \* --json
    args,         \* positional arguments of the command
    checkName,    \* package variable checkName
    pc,           \* position of the command's single thread of control
    cs,           \* check instances returned by GetChecksByNameForConfigs
    diag,         \* what GetConfigErrors, GetLoaderErrors, GetResolveWarnings returned
    idx,          \* position of `for _, c := range cs`
    s,            \* runCheck: the check.Stats being filled
    times,        \* runCheck: local times
    pause,        \* runCheck: local pause
    i,            \* runCheck: loop counter
    runErrs,      \* history: what each call of c.Run returned, for the current instance
    inflight,     \* metrics submitted by Run, not yet ingested by the aggregator
    agg,          \* the aggregator's buffer, one sequence per category
    out,          \* trace of observable events
    ret,          \* what RunE returned: "none" while running
    ident         \* one call of BuildID and of IDToCheckName: arguments and results

flags == <<checkRate, checkTimes, checkPause, checkDelay, formatJSON, args>>
locals == <<s, times, pause, i, runErrs>>
vars == <<checkRate, checkTimes, checkPause, checkDelay, formatJSON, args,
          checkName, pc, cs, diag, idx, s, times, pause, i, runErrs, inflight, agg,
          out, ret, ident>>

(* ------------------------------------------------------------------ *)
(* Events of the trace                                                 *)
(* ------------------------------------------------------------------ *)
\* One shape for every event: ev the kind, txt a text, n a number, inst the
\* instance being handled (0: none), data a printed sequence, obj a printed
\* mapping as its set of <<key, value>> pairs.
Ev(ev, txt, n) ==
    [ev |-> ev, txt |-> txt, n |-> n, inst |-> 0, data |-> <<>>, obj |-> {}]

EvData(ev, txt, data) ==
    [ev |-> ev, txt |-> txt, n |-> 0, inst |-> 0, data |-> data, obj |-> {}]

EvObj(ev, txt, obj) ==
    [ev |-> ev, txt |-> txt, n |-> 0, inst |-> 0, data |-> <<>>, obj |-> obj]

\* the events evs, marked as belonging to the handling of instance k
ForInst(evs, k) == [p \in 1..Len(evs) |-> [evs[p] EXCEPT !.inst = k]]

Categories == <<"series", "sketches", "service_checks", "events">>
EmptyAgg == [c \in {Categories[p] : p \in 1..4} |-> <<>>]


(* ------------------------------------------------------------------ *)
(* runCheck: the rate-mode override and the pause rule                 *)
(* ------------------------------------------------------------------ *)
\* mutant: rate mode only lowers times, it does not raise it to 2
EffTimes_OnlyLowers(rate, t) == IF rate /\ t > RateTimes THEN RateTimes ELSE t

\* check.go:154,156,163  times := checkTimes; if checkRate { times = 2 }
EffTimes(rate, t) == IF rate THEN RateTimes ELSE t

\* check.go:155,156,164  pause := checkPause; if checkRate { pause = 1000 }
EffPause(rate, p) == IF rate THEN RatePause ELSE p

\* mutant: the advisory is also printed for checkTimes = 2
TimesAdvisory_FromTwo(rate, t) == rate /\ t >= 2

\* check.go:156-159  if checkRate { if checkTimes > 2 { color.Yellow(...) } }
TimesAdvisory(rate, t) == rate /\ t > 2

\* mutant: the advisory is printed whenever the pause is changed by the override
PauseAdvisory_WhenChanged(rate, p) == rate /\ p # RatePause

\* check.go:156,160-162  if checkRate { if pause > 0 { color.Yellow(...) } }
PauseAdvisory(rate, p) == rate /\ p > 0

\* check.go:156-165  the advisories runCheck prints, in the order it prints them
Advisories(rate, t, p) ==
    (IF TimesAdvisory(rate, t)
        THEN <<Ev("advisory", "overriding check-times to 2", 0)>> ELSE <<>>)
    \o
    (IF PauseAdvisory(rate, p)
        THEN <<Ev("advisory", "overriding pause to 1000ms", 0)>> ELSE <<>>)

\* mutant: the pause also follows the final run
ShouldPause_EveryRun(p, k, t) == p > 0

\* check.go:172  if pause > 0 && i < times-1
ShouldPause(p, k, t) == p > 0 /\ k < t - 1

\* check.NewStats(c): an empty accumulator
NewStats == <<>>

\* s.Add(time.Since(t0), err, warnings, mStats): one outcome appended; run is
\* the loop counter at the time of the call (history, not a field of the code)
StatsAdd(st, err, k) == Append(st, [err |-> err, run |-> k])

(* ------------------------------------------------------------------ *)
(* printMetrics                                                        *)
(* ------------------------------------------------------------------ *)
\* aggJSON[key] = value
MapPut(m, key, value) == {pr \in m : pr[1] # key} \cup {<<key, value>>}

\* mutant: the text branch prints a category without testing its length
PrintCategory_NoLenTest(seq, heading, json) ==
    IF ~json
        THEN <<Ev("heading", heading, 0), EvData("block", heading, seq)>>
        ELSE <<>>

\* check.go:184-191 (and 195-202, 206-213, 217-224): the text branch of one
\* category: a heading and the indented serialization of the sequence
PrintCategory(seq, heading, json) ==
    IF Len(seq) # 0 /\ ~json
        THEN <<Ev("heading", heading, 0), EvData("block", heading, seq)>>
        ELSE <<>>

\* mutant: the JSON branch inserts a category without testing its length
JSONCategory_NoLenTest(m, seq, key, json) ==
    IF json THEN MapPut(m, key, seq) ELSE m

\* check.go:184-186 (and 195-197, 206-208, 217-219): the JSON branch of one
\* category: the sequence goes under its key, nothing is printed
JSONCategory(m, seq, key, json) ==
    IF Len(seq) # 0 /\ json THEN MapPut(m, key, seq) ELSE m

\* check.go:227-231  the closing JSON heading and the accumulated mapping
PrintJSON(m, json) ==
    IF json THEN <<Ev("heading", "JSON", 0), EvObj("object", "JSON", m)>> ELSE <<>>

\* check.go:180-232  what printMetrics prints for the four sequences it got
\* from agg.GetSeries, GetSketches, GetServiceChecks and GetEvents
printMetrics(snap, json) ==
    LET series == snap["series"]
        sketches == snap["sketches"]
        serviceChecks == snap["service_checks"]
        events == snap["events"]
        j1 == JSONCategory({}, series, "metrics", json)
        j2 == JSONCategory(j1, sketches, "sketches", json)
        j3 == JSONCategory(j2, serviceChecks, "service_checks", json)
        aggJSON == JSONCategory(j3, events, "events", json)
    IN  PrintCategory(series, "Series", json)
        \o PrintCategory(sketches, "Sketches", json)
        \o PrintCategory(serviceChecks, "Service Checks", json)
        \o PrintCategory(events, "Events", json)
        \o PrintJSON(aggJSON, json)

\* the aggregator's getters flush: the buffer is empty after they were read
Drain(a) == EmptyAgg

\* the aggregator ingests what was submitted, in submission order
IngestAll(a, sub) == [c \in DOMAIN a |-> a[c] \o sub[c]]

\* what one call of Run (instance k, loop counter r) submits: one series point
\* (the other contents of the buffer are those of SpecRender)
RunSubmits == {"series"}
Item(k, r) == 10 * k + r
Submit(sub, cats, k, r) ==
    [c \in DOMAIN sub |-> IF c \in cats THEN Append(sub[c], Item(k, r)) ELSE sub[c]]


(* ------------------------------------------------------------------ *)
(* Check identities (id.go)                                            *)
(* ------------------------------------------------------------------ *)
\* hash/fnv: a 64-bit value is kept as its 8 bytes, least significant first
Offset64 == <<37, 35, 34, 132, 228, 156, 242, 203>>    \* 0xcbf29ce484222325
Prime64 == <<179, 1, 0, 0, 0, 1, 0, 0>>                \* 0x00000100000001b3

\* a ^ b on n-bit values
RECURSIVE BitXor(_, _, _)
BitXor(a, b, n) ==
    IF n = 0 THEN 0
    ELSE (((a % 2) + (b % 2)) % 2) + 2 * BitXor((a \div 2), (b \div 2), n - 1)

\* column k of the product h * Prime64: the sum of h[a] * Prime64[k+1-a]
RECURSIVE MulColumn(_, _, _)
MulColumn(h, k, a) ==
    IF a > k THEN 0 ELSE h[a] * Prime64[k + 1 - a] + MulColumn(h, k, a + 1)

\* bytes k..8 of h * Prime64 mod 2^64, carry coming from the columns below k
RECURSIVE MulFrom(_, _, _)
MulFrom(h, k, carry) ==
    IF k > 8 THEN <<>>
    ELSE LET total == MulColumn(h, k, 1) + carry
         IN  <<(total % 256)>> \o MulFrom(h, k + 1, (total \div 256))

\* hash *= prime64
MulPrime64(h) == MulFrom(h, 1, 0)

\* hash/fnv (*sum64).Write: for each byte c: hash *= prime64; hash ^= uint64(c)
RECURSIVE Write(_, _)
Write(h, data) ==
    IF data = <<>> THEN h
    ELSE LET m == MulPrime64(h)
         IN  Write([m EXCEPT ![1] = BitXor(m[1], Head(data), 8)], Tail(data))

\* id.go:26  h := fnv.New64()
New64 == Offset64

HexDigits == <<"0", "1", "2", "3", "4", "5", "6", "7", "8", "9", "a", "b", "c", "d", "e", "f">>

\* the 16 hexadecimal digits of h, most significant first
AllHex(h) ==
    [p \in 1..16 |->
        LET b == h[8 - ((p - 1) \div 2)]
        IN  HexDigits[(IF (p % 2) = 1 THEN (b \div 16) ELSE (b % 16)) + 1]]

RECURSIVE StripZeros(_)
StripZeros(str) ==
    IF Len(str) > 1 /\ Head(str) = "0" THEN StripZeros(Tail(str)) ELSE str

\* fmt's %x of h.Sum64(): lowercase, no leading zeros
Hex(h) == StripZeros(AllHex(h))

\* mutant: initConfig is written before instance
ConfigDigest_InitFirst(instance, initConfig) == Write(Write(New64, initConfig), instance)

\* id.go:26-28  the hash of instance, then initConfig
ConfigDigest(instance, initConfig) == Write(Write(New64, instance), initConfig)

\* mutant: the extra ID is left out of the identity
FormatID_NoExtra(checkName_, extraID, h) == checkName_ \o <<":">> \o Hex(h)

\* mutant: no separator between the name and the extra ID
FormatID_NoSeparator(checkName_, extraID, h) ==
    checkName_ \o extraID \o <<":">> \o Hex(h)

\* id.go:30-34  the two formats of the identity
FormatID(checkName_, extraID, h) ==
    IF extraID # <<>>
        THEN checkName_ \o <<":">> \o extraID \o <<":">> \o Hex(h)
        ELSE checkName_ \o <<":">> \o Hex(h)

\* id.go:25-35  BuildID
BuildID(checkName_, instance, initConfig, extraID) ==
    FormatID(checkName_, extraID, ConfigDigest(instance, initConfig))

\* strings.SplitN(str, ":", 2)[0]: what precedes the first ":", or all of str
RECURSIVE BeforeFirstColon(_)
BeforeFirstColon(str) ==
    IF str = <<>> \/ Head(str) = ":" THEN <<>>
    ELSE <<Head(str)>> \o BeforeFirstColon(Tail(str))

\* mutant: the identity is cut at its last ":"
RECURSIVE BeforeLastColon(_)
BeforeLastColon(str) ==
    IF str = <<>> THEN <<>>
    ELSE IF str[Len(str)] = ":" THEN SubSeq(str, 1, Len(str) - 1)
    ELSE BeforeLastColon(SubSeq(str, 1, Len(str) - 1))

IDToCheckName_LastColon(id) == BeforeLastColon(id)

\* id.go:38-40  IDToCheckName
IDToCheckName(id) == BeforeFirstColon(id)

\* no call of BuildID is being followed
NoIdent ==
    [stage |-> "none", name |-> <<>>, instance |-> <<>>, initConfig |-> <<>>,
     extra |-> <<>>, sum |-> <<>>, id |-> <<>>, back |-> <<>>]

(* ------------------------------------------------------------------ *)
(* The printed context of a failed resolution (check.go:104-124)       *)
(* ------------------------------------------------------------------ *)
\* check.go:104-108  for check, error := range GetConfigErrors(): the entry
\* of checkName, if any, is printed
ConfigErrorLines(name, cfgErrs) ==
    IF name \in cfgErrs THEN <<Ev("config_error", name, 0)>> ELSE <<>>

\* check.go:109-116  the loader errors of checkName: a heading, then one line
\* per loader in the order the map is ranged over
LoaderErrorLines(name, ldrErrs, order) ==
    IF name \in DOMAIN ldrErrs
        THEN <<Ev("loader_error", name, 0)>>
             \o [q \in 1..Len(order) |-> Ev("loader_line", order[q], 0)]
        ELSE <<>>

\* check.go:117-124  the resolve warnings of checkName: a heading, then one
\* line per warning
ResolveWarningLines(name, warns) ==
    IF name \in DOMAIN warns
        THEN <<Ev("resolve_warning", name, 0)>>
             \o [q \in 1..warns[name] |-> Ev("warning_line", name, q)]
        ELSE <<>>

\* the orders in which a Go map with the key set S may be ranged over
Orders(S) ==
    {o \in [1..Cardinality(S) -> S] : \A a, b \in 1..Cardinality(S) : a # b => o[a] # o[b]}

\* the maps from some check names to values of V
PartialMaps(V) == UNION {[D -> V] : D \in SUBSET CheckNames}

\* the three getters have not been called
NoDiag == [cfgErrs |-> {}, ldrErrs |-> <<>>, warns |-> <<>>]

(* ------------------------------------------------------------------ *)
(* Initial states                                                      *)
(* ------------------------------------------------------------------ *)
Init ==
    /\ checkRate \in BOOLEAN
    /\ checkTimes \in CmdTimesValues
    /\ checkPause \in CmdPauseValues
    /\ checkDelay \in DelayValues
    /\ formatJSON \in BOOLEAN
    /\ args \in {<<>>, <<"cpu">>}
    /\ checkName = ""
    /\ pc = "SetupConfig"
    /\ cs = <<>>
    /\ diag = NoDiag
    /\ idx = 0
    /\ s = NewStats
    /\ times = 0
    /\ pause = 0
    /\ i = 0
    /\ runErrs = <<>>
    /\ inflight = EmptyAgg
    /\ agg = EmptyAgg
    /\ out = <<>>
    /\ ret = "none"
    /\ ident = NoIdent

\* return from RunE with result r after printing evs
Return(evs, r) ==
    /\ out' = out \o evs
    /\ ret' = r
    /\ pc' = "done"

(* ------------------------------------------------------------------ *)
(* checkCmd.RunE                                                       *)
(* ------------------------------------------------------------------ *)
\* mutant: the failure of SetupConfig is printed and the command goes on
SetupConfig_Continues ==
    /\ pc = "SetupConfig"
    /\ \/ /\ pc' = "SetupLogger"
          /\ UNCHANGED <<out, ret>>
       \/ /\ out' = Append(out, Ev("print", "Cannot setup config, exiting", 0))
          /\ pc' = "SetupLogger"
          /\ UNCHANGED ret
    /\ UNCHANGED <<ident, flags, checkName, cs, diag, idx, locals, inflight, agg>>

\* check.go:58-62  common.SetupConfig
SetupConfig ==
    /\ pc = "SetupConfig"
    /\ \/ /\ pc' = "SetupLogger"
          /\ UNCHANGED <<out, ret>>
       \/ Return(<<Ev("print", "Cannot setup config, exiting", 0)>>, "err: config")
    /\ UNCHANGED <<ident, flags, checkName, cs, diag, idx, locals, inflight, agg>>

\* check.go:80-84  config.SetupLogger
SetupLogger ==
    /\ pc = "SetupLogger"
    /\ \/ /\ pc' = "Args"
          /\ UNCHANGED <<out, ret>>
       \/ Return(<<Ev("print", "Cannot setup logger, exiting", 0)>>, "err: logger")
    /\ UNCHANGED <<ident, flags, checkName, cs, diag, idx, locals, inflight, agg>>

\* mutant: the return after the help is missing
Args_HelpFallsThrough ==
    /\ pc = "Args"
    /\ \/ /\ Len(args) # 0
          /\ checkName' = args[1]
          /\ pc' = "GetHostname"
          /\ UNCHANGED <<out, ret>>
       \/ /\ Len(args) = 0
          /\ out' = Append(out, Ev("help", "", 0))
          /\ pc' = "GetHostname"
          /\ UNCHANGED <<checkName, ret>>
    /\ UNCHANGED <<ident, flags, cs, diag, idx, locals, inflight, agg>>

\* check.go:86-91  the positional argument, or the help
Args ==
    /\ pc = "Args"
    /\ \/ /\ Len(args) # 0
          /\ checkName' = args[1]
          /\ pc' = "GetHostname"
          /\ UNCHANGED <<out, ret>>
       \/ /\ Len(args) = 0
          /\ Return(<<Ev("help", "", 0)>>, "nil")
          /\ UNCHANGED checkName
    /\ UNCHANGED <<ident, flags, cs, diag, idx, locals, inflight, agg>>

\* check.go:93-97  util.GetHostname
GetHostname ==
    /\ pc = "GetHostname"
    /\ \/ /\ pc' = "Resolve"
          /\ UNCHANGED <<out, ret>>
       \/ Return(<<Ev("print", "Cannot get hostname, exiting", 0)>>, "err: hostname")
    /\ UNCHANGED <<ident, flags, checkName, cs, diag, idx, locals, inflight, agg>>

\* mutant: the return after the printed context is missing
NoCheckFound_FallsThrough ==
    \E cfgErrs \in SUBSET CheckNames,
       ldrErrs \in PartialMaps(SUBSET Loaders),
       warns \in PartialMaps(0..1) :
        \E order \in Orders(IF checkName \in DOMAIN ldrErrs THEN ldrErrs[checkName] ELSE {}) :
            /\ diag' = [cfgErrs |-> cfgErrs, ldrErrs |-> ldrErrs, warns |-> warns]
            /\ out' = out \o ConfigErrorLines(checkName, cfgErrs)
                          \o LoaderErrorLines(checkName, ldrErrs, order)
                          \o ResolveWarningLines(checkName, warns)
            /\ pc' = "range"
            /\ UNCHANGED ret

\* check.go:103-126  len(cs) == 0: the matching config errors, loader errors
\* and resolve warnings are printed, then the error is returned
NoCheckFound ==
    \E cfgErrs \in SUBSET CheckNames,
       ldrErrs \in PartialMaps(SUBSET Loaders),
       warns \in PartialMaps(0..1) :
        \E order \in Orders(IF checkName \in DOMAIN ldrErrs THEN ldrErrs[checkName] ELSE {}) :
            /\ diag' = [cfgErrs |-> cfgErrs, ldrErrs |-> ldrErrs, warns |-> warns]
            /\ Return(ConfigErrorLines(checkName, cfgErrs)
                       \o LoaderErrorLines(checkName, ldrErrs, order)
                       \o ResolveWarningLines(checkName, warns),
                      "err: no valid check found")

\* check.go:128-130  more than one instance is announced
MultipleLine(n) ==
    IF n > 1 THEN <<Ev("print", "Multiple check instances found", 0)>> ELSE <<>>

\* check.go:99-130  the instances of checkName are resolved
Resolve ==
    /\ pc = "Resolve"
    /\ \E n \in 0..MaxInst :
        /\ cs' = [k \in 1..n |-> k]
        /\ IF n = 0
              THEN /\ NoCheckFound
                   /\ UNCHANGED idx
              ELSE /\ out' = out \o MultipleLine(n)
                   /\ idx' = 1
                   /\ pc' = "range"
                   /\ UNCHANGED <<ret, diag>>
    /\ UNCHANGED <<ident, flags, checkName, locals, inflight, agg>>

(* ------------------------------------------------------------------ *)
(* runCheck                                                            *)
(* ------------------------------------------------------------------ *)
\* check.go:132-133,152-165  the next instance: runCheck is entered, the
\* rate-mode override is applied and its advisories are printed
runCheck ==
    /\ pc = "range"
    /\ idx <= Len(cs)
    /\ s' = NewStats
    /\ times' = EffTimes(checkRate, checkTimes)
    /\ pause' = EffPause(checkRate, checkPause)
    /\ i' = 0
    /\ runErrs' = <<>>
    /\ out' = out \o ForInst(Advisories(checkRate, checkTimes, checkPause), idx)
    /\ pc' = "for"
    /\ UNCHANGED <<ident, flags, checkName, cs, diag, idx, inflight, agg, ret>>

\* check.go:166-168  i < times: c.Run() is called
RunCall ==
    /\ pc = "for"
    /\ i < times
    /\ out' = Append(out, [Ev("run_call", "", i) EXCEPT !.inst = idx])
    /\ pc' = "Run"
    /\ UNCHANGED <<ident, flags, checkName, cs, diag, idx, locals, inflight, agg, ret>>

\* check.go:172-174,166  after s.Add: the pause, or straight to i++
AfterAdd == IF ShouldPause(pause, i, times) THEN "Pause" ELSE "for"

\* mutant: an error of Run ends the loop
RunReturn_AbortOnError ==
    /\ pc = "Run"
    /\ \E err \in BOOLEAN :
        /\ s' = StatsAdd(s, err, i)
        /\ runErrs' = Append(runErrs, err)
        /\ pc' = IF err THEN "for" ELSE AfterAdd
        /\ i' = IF err THEN times ELSE IF AfterAdd = "for" THEN i + 1 ELSE i
    /\ inflight' = Submit(inflight, RunSubmits, idx, i)
    /\ out' = Append(out, [Ev("run_return", "", i) EXCEPT !.inst = idx])
    /\ UNCHANGED <<ident, flags, checkName, cs, diag, idx, times, pause, agg, ret>>

\* check.go:168-172  c.Run() returns err, having submitted its metrics; the
\* outcome is added to the stats
RunReturn ==
    /\ pc = "Run"
    /\ \E err \in BOOLEAN :
        /\ s' = StatsAdd(s, err, i)
        /\ runErrs' = Append(runErrs, err)
    /\ inflight' = Submit(inflight, RunSubmits, idx, i)
    /\ out' = Append(out, [Ev("run_return", "", i) EXCEPT !.inst = idx])
    /\ pc' = AfterAdd
    /\ i' = IF AfterAdd = "for" THEN i + 1 ELSE i
    /\ UNCHANGED <<ident, flags, checkName, cs, diag, idx, times, pause, agg, ret>>

\* check.go:173,166  time.Sleep(pause), then i++
Pause ==
    /\ pc = "Pause"
    /\ out' = Append(out, [Ev("sleep", "pause", pause) EXCEPT !.inst = idx])
    /\ i' = i + 1
    /\ pc' = "for"
    /\ UNCHANGED <<ident, flags, checkName, cs, diag, idx, s, times, pause, runErrs, inflight, agg, ret>>

\* mutant: the loop ends one iteration short
RunCheckReturn_OneShort ==
    /\ pc = "for"
    /\ ~(i < times - 1)
    /\ pc' = "Sleep"
    /\ UNCHANGED <<ident, flags, checkName, cs, diag, idx, locals, inflight, agg, out, ret>>

\* check.go:166,177  the loop is over: return s
RunCheckReturn ==
    /\ pc = "for"
    /\ ~(i < times)
    /\ pc' = "Sleep"
    /\ UNCHANGED <<ident, flags, checkName, cs, diag, idx, locals, inflight, agg, out, ret>>

(* ------------------------------------------------------------------ *)
(* checkCmd.RunE, after runCheck                                       *)
(* ------------------------------------------------------------------ *)
\* mutant: the metrics are grabbed without the settle delay
Sleep_NoWait ==
    /\ pc = "Sleep"
    /\ pc' = "printMetrics"
    /\ UNCHANGED <<ident, flags, checkName, cs, diag, idx, locals, inflight, agg, out, ret>>

\* check.go:136  time.Sleep(checkDelay)
Sleep ==
    /\ pc = "Sleep"
    /\ out' = Append(out, [Ev("sleep", "delay", checkDelay) EXCEPT !.inst = idx])
    /\ pc' = "printMetrics"
    /\ UNCHANGED <<ident, flags, checkName, cs, diag, idx, locals, inflight, agg, ret>>

\* mutant: the render also shows what has not reached the buffer yet
PrintMetrics_ShowsInflight ==
    /\ pc = "printMetrics"
    /\ out' = out \o ForInst(printMetrics(IngestAll(agg, inflight), formatJSON), idx)
    /\ agg' = Drain(agg)
    /\ pc' = "GetCheckStatus"
    /\ UNCHANGED <<ident, flags, checkName, cs, diag, idx, locals, inflight, ret>>

\* mutant: the buffer is rendered a second time
PrintMetrics_Twice ==
    /\ pc = "printMetrics"
    /\ out' = out \o ForInst(printMetrics(agg, formatJSON)
                              \o printMetrics(Drain(agg), formatJSON), idx)
    /\ agg' = Drain(agg)
    /\ pc' = "GetCheckStatus"
    /\ UNCHANGED <<ident, flags, checkName, cs, diag, idx, locals, inflight, ret>>

\* check.go:138  printMetrics(agg)
PrintMetrics ==
    /\ pc = "printMetrics"
    /\ out' = out \o ForInst(printMetrics(agg, formatJSON), idx)
    /\ agg' = Drain(agg)
    /\ pc' = "GetCheckStatus"
    /\ UNCHANGED <<ident, flags, checkName, cs, diag, idx, locals, inflight, ret>>

\* check.go:140-141  the status block of the instance, from its stats
GetCheckStatus ==
    /\ pc = "GetCheckStatus"
    /\ out' = Append(out, [Ev("status", "", Len(s)) EXCEPT !.inst = idx])
    /\ idx' = idx + 1
    /\ pc' = "range"
    /\ UNCHANGED <<ident, flags, checkName, cs, diag, locals, inflight, agg, ret>>

\* check.go:144-146  the "ran only once" advisory
OnceAdvisory ==
    IF checkRate = FALSE /\ checkTimes < 2 /\ ~formatJSON
        THEN <<Ev("advisory", "Check has run only once", 0)>> ELSE <<>>

\* mutant: a failed run of the last instance makes the command fail
Finish_ErrorOnFailedRun ==
    /\ pc = "range"
    /\ idx > Len(cs)
    /\ Return(OnceAdvisory,
              IF \E j \in 1..Len(s) : s[j].err THEN "err: check failed" ELSE "nil")
    /\ UNCHANGED <<ident, flags, checkName, cs, diag, idx, locals, inflight, agg>>

\* check.go:132,144-148  the range is over: the advisory, then return nil
Finish ==
    /\ pc = "range"
    /\ idx > Len(cs)
    /\ Return(OnceAdvisory, "nil")
    /\ UNCHANGED <<ident, flags, checkName, cs, diag, idx, locals, inflight, agg>>

(* ------------------------------------------------------------------ *)
(* The aggregator, running beside the command                          *)
(* ------------------------------------------------------------------ *)
\* what Run submitted reaches the buffer
Ingest ==
    /\ inflight # EmptyAgg
    /\ agg' = IngestAll(agg, inflight)
    /\ inflight' = EmptyAgg
    /\ UNCHANGED <<ident, flags, checkName, pc, cs, diag, idx, locals, out, ret>>

Next ==
    \/ SetupConfig
    \/ SetupLogger
    \/ Args
    \/ GetHostname
    \/ Resolve
    \/ runCheck
    \/ RunCall
    \/ RunReturn
    \/ Pause
    \/ RunCheckReturn
    \/ Sleep
    \/ PrintMetrics
    \/ GetCheckStatus
    \/ Finish
    \/ Ingest

Spec == Init /\ [][Next]_vars

(* ------------------------------------------------------------------ *)
(* runCheck alone: one call, for every value of the flags              *)
(* ------------------------------------------------------------------ *)
\* RunE is about to call runCheck for the one instance it resolved
InitRun ==
    /\ checkRate \in BOOLEAN
    /\ checkTimes \in TimesValues
    /\ checkPause \in PauseValues
    /\ checkDelay \in DelayValues
    /\ formatJSON \in BOOLEAN
    /\ args = <<"cpu">>
    /\ checkName = "cpu"
    /\ pc = "range"
    /\ cs = <<1>>
    /\ diag = NoDiag
    /\ idx = 1
    /\ s = NewStats
    /\ times = 0
    /\ pause = 0
    /\ i = 0
    /\ runErrs = <<>>
    /\ inflight = EmptyAgg
    /\ agg = EmptyAgg
    /\ out = <<>>
    /\ ret = "none"
    /\ ident = NoIdent

NextRun ==
    \/ runCheck
    \/ RunCall
    \/ RunReturn
    \/ Pause
    \/ RunCheckReturn

SpecRun == InitRun /\ [][NextRun]_vars

\* runCheck is one thread of control and every call of Run returns: a step
\* that can be taken is taken
SpecRunFair == InitRun /\ [][NextRun]_vars /\ WF_vars(NextRun)


(* ------------------------------------------------------------------ *)
(* printMetrics alone: one call, for every content of the four getters *)
(* ------------------------------------------------------------------ *)
\* what one getter of the aggregator may return
SnapshotSeqs == UNION {[1..n -> {Item(1, 0), Item(1, 1)}] : n \in 0..MaxItems}

\* RunE is about to call printMetrics for the one instance it resolved
InitRender ==
    /\ checkRate = FALSE
    /\ checkTimes = 1
    /\ checkPause = 0
    /\ checkDelay \in DelayValues
    /\ formatJSON \in BOOLEAN
    /\ args = <<"cpu">>
    /\ checkName = "cpu"
    /\ pc = "printMetrics"
    /\ cs = <<1>>
    /\ diag = NoDiag
    /\ idx = 1
    /\ s = NewStats
    /\ times = 1
    /\ pause = 0
    /\ i = 1
    /\ runErrs = <<>>
    /\ inflight = EmptyAgg
    /\ agg \in [DOMAIN EmptyAgg -> SnapshotSeqs]
    /\ out = <<>>
    /\ ret = "none"
    /\ ident = NoIdent

NextRender == PrintMetrics

SpecRender == InitRender /\ [][NextRender]_vars

(* ------------------------------------------------------------------ *)
(* BuildID and IDToCheckName alone                                     *)
(* ------------------------------------------------------------------ *)
\* the strings of at most n characters of C
StringsOver(C, n) == UNION {[1..k -> C] : k \in 0..n}

\* check names and extra IDs: "a" is also a hexadecimal digit
Strs == StringsOver({"a", ":"}, MaxStr)
\* instance and initConfig: bytes 'a' and 'b'
Datas == StringsOver({97, 98}, MaxBytes)

InitID ==
    /\ checkRate = FALSE
    /\ checkTimes = 1
    /\ checkPause = 0
    /\ checkDelay \in DelayValues
    /\ formatJSON = FALSE
    /\ args = <<>>
    /\ checkName = ""
    /\ pc = "done"
    /\ cs = <<>>
    /\ diag = NoDiag
    /\ idx = 0
    /\ s = NewStats
    /\ times = 0
    /\ pause = 0
    /\ i = 0
    /\ runErrs = <<>>
    /\ inflight = EmptyAgg
    /\ agg = EmptyAgg
    /\ out = <<>>
    /\ ret = "none"
    /\ \E name \in Strs, extra \in Strs, instance \in Datas, initConfig \in Datas :
        ident = [NoIdent EXCEPT !.stage = "args", !.name = name, !.extra = extra,
                                !.instance = instance, !.initConfig = initConfig]

command == <<flags, checkName, pc, cs, diag, idx, locals, inflight, agg, out, ret>>

\* id.go:25-35  BuildID(name, instance, initConfig, extra) is called
BuildIDCall ==
    /\ ident.stage = "args"
    /\ ident' = [ident EXCEPT
            !.stage = "built",
            !.sum = ConfigDigest(ident.instance, ident.initConfig),
            !.id = BuildID(ident.name, ident.instance, ident.initConfig, ident.extra)]
    /\ UNCHANGED command

\* id.go:38-40  IDToCheckName is called on the identity
IDToCheckNameCall ==
    /\ ident.stage = "built"
    /\ ident' = [ident EXCEPT !.stage = "named", !.back = IDToCheckName(ident.id)]
    /\ UNCHANGED command

NextID ==
    \/ BuildIDCall
    \/ IDToCheckNameCall

SpecID == InitID /\ [][NextID]_vars

(* ------------------------------------------------------------------ *)
(* Reading the trace                                                   *)
(* ------------------------------------------------------------------ *)
IsCall(e, k) == e.ev = "run_call" /\ e.n = k
IsReturn(e, k) == e.ev = "run_return" /\ e.n = k
IsPause(e) == e.ev = "sleep" /\ e.txt = "pause"
IsDelay(e) == e.ev = "sleep" /\ e.txt = "delay"
IsRender(e) == e.ev \in {"heading", "block", "object"}
IsRunEv(e) == e.ev \in {"run_call", "run_return"} \/ IsPause(e)

\* the calls of Run, their returns and the pauses of instance k, in order
RunTrace(k) == SelectSeq(out, LAMBDA e : e.inst = k /\ IsRunEv(e))

\* the override advisories printed so far, by text
OverrideAdvisories(txt) ==
    {p \in 1..Len(out) : out[p].ev = "advisory" /\ out[p].txt = txt}
TimesAdvisories == OverrideAdvisories("overriding check-times to 2")
PauseAdvisories == OverrideAdvisories("overriding pause to 1000ms")

\* runCheck has returned for the instance being handled
Returned == pc = "Sleep"

Max0(x) == IF x > 0 THEN x ELSE 0

(* ------------------------------------------------------------------ *)
(* Claims about runCheck, under SpecRun                                *)
(* ------------------------------------------------------------------ *)
\* C1: in rate mode runCheck calls Run exactly twice, with exactly one pause,
\* of 1000 ms, between the return of the first call and the second call,
\* whatever checkTimes and checkPause are.
C1_RateTwoRunsOnePause ==
    (checkRate /\ Returned) =>
        RunTrace(idx) = ForInst(<<Ev("run_call", "", 0), Ev("run_return", "", 0),
                                  Ev("sleep", "pause", 1000),
                                  Ev("run_call", "", 1), Ev("run_return", "", 1)>>, idx)

C1_Witness ==
    /\ checkRate /\ Returned
    /\ checkTimes = 1 /\ checkPause = 0
    /\ Len(RunTrace(idx)) = 5

\* C2 as stated: in rate mode, times=5 and pause=0 give two override
\* advisories (one for times, one for pause), and times=2 and pause=1000 give
\* none.
C2_AsStated ==
    (checkRate /\ Returned) =>
        /\ (checkTimes = 5 /\ checkPause = 0) =>
                (Cardinality(TimesAdvisories) = 1 /\ Cardinality(PauseAdvisories) = 1)
        /\ (checkTimes = 2 /\ checkPause = 1000) =>
                (TimesAdvisories = {} /\ PauseAdvisories = {})

\* C2 as amended: in rate mode, times=5 and pause=0 give exactly one override
\* advisory, the one for times; times=2 and pause=1000 give exactly one, the
\* one for pause.
C2_Amended ==
    (checkRate /\ Returned) =>
        /\ (checkTimes = 5 /\ checkPause = 0) =>
                (Cardinality(TimesAdvisories) = 1 /\ PauseAdvisories = {})
        /\ (checkTimes = 2 /\ checkPause = 1000) =>
                (TimesAdvisories = {} /\ Cardinality(PauseAdvisories) = 1)

C2_Witness ==
    /\ checkRate /\ Returned
    /\ checkTimes = 5 /\ checkPause = 0
    /\ Cardinality(TimesAdvisories) = 1

\* C3 as stated: the times advisory is printed iff rate mode is on and
\* checkTimes > 2; the pause advisory iff rate mode is on and checkPause is
\* non-zero.
C3_AsStated ==
    Returned =>
        /\ (TimesAdvisories # {}) <=> (checkRate /\ checkTimes > 2)
        /\ (PauseAdvisories # {}) <=> (checkRate /\ checkPause # 0)

\* C3 as amended: the times advisory is printed (once) iff rate mode is on and
\* checkTimes > 2; the pause advisory (once) iff rate mode is on and
\* checkPause > 0; neither is printed when rate mode is off.
C3_Amended ==
    Returned =>
        /\ Cardinality(TimesAdvisories) = (IF checkRate /\ checkTimes > 2 THEN 1 ELSE 0)
        /\ Cardinality(PauseAdvisories) = (IF checkRate /\ checkPause > 0 THEN 1 ELSE 0)

\* the pause advisory without the times advisory: each is decided on its own
C3_Witness ==
    /\ checkRate /\ Returned
    /\ checkTimes = 1 /\ checkPause = 50
    /\ TimesAdvisories = {} /\ PauseAdvisories # {}

\* C4: with rate mode off, checkTimes >= 1 and checkPause > 0, runCheck sleeps
\* exactly checkTimes-1 times, each time for checkPause ms right after the
\* return of run j and right before the call of run j+1, and the last event is
\* the return of the final run; with checkPause = 0 it never sleeps.
C4_PausePlacement ==
    LET tr == RunTrace(idx)
        sleeps == {p \in 1..Len(tr) : IsPause(tr[p])}
    IN  (~checkRate /\ Returned) =>
            /\ (checkTimes >= 1 /\ checkPause > 0) =>
                /\ Cardinality(sleeps) = checkTimes - 1
                /\ \A p \in sleeps :
                    /\ tr[p].n = checkPause
                    /\ 1 < p /\ p < Len(tr)
                    /\ \E j \in 0..(checkTimes - 2) :
                        IsReturn(tr[p - 1], j) /\ IsCall(tr[p + 1], j + 1)
                /\ IsReturn(tr[Len(tr)], checkTimes - 1)
            /\ (checkPause = 0) => sleeps = {}

C4_Witness ==
    /\ ~checkRate /\ Returned
    /\ checkTimes = 3 /\ checkPause = 50
    /\ Cardinality({p \in 1..Len(out) : IsPause(out[p])}) = 2

\* C5 as stated: when runCheck returns it has recorded exactly `times`
\* outcomes (the effective times), and the j-th outcome carries an error iff
\* the j-th call of Run returned one.
C5_AsStated ==
    Returned =>
        /\ Len(s) = EffTimes(checkRate, checkTimes)
        /\ Len(runErrs) = Len(s)
        /\ \A j \in 1..Len(s) : s[j].err = runErrs[j]

\* C5 as amended: when runCheck returns it has recorded exactly
\* max(0, effective times) outcomes, one per call of Run, and the j-th outcome
\* carries an error iff the j-th call of Run returned one.
C5_Amended ==
    Returned =>
        /\ Len(s) = Max0(EffTimes(checkRate, checkTimes))
        /\ Len(runErrs) = Len(s)
        /\ \A j \in 1..Len(s) : s[j].err = runErrs[j]

\* run 2 of 3 failed, runs 1 and 3 did not
C5_Witness ==
    /\ ~checkRate /\ Returned /\ checkTimes = 3
    /\ runErrs = <<FALSE, TRUE, FALSE>>
    /\ Len(s) = 3 /\ s[2].err /\ ~s[1].err /\ ~s[3].err


(* ------------------------------------------------------------------ *)
(* Claims about printMetrics, under SpecRender                         *)
(* ------------------------------------------------------------------ *)
Headings == <<"Series", "Sketches", "Service Checks", "Events">>
Keys == <<"metrics", "sketches", "service_checks", "events">>

\* what the step printed
Printed == SubSeq(out', Len(out) + 1, Len(out'))

\* the positions of seq holding an event of kind ev with text txt
Places(seq, ev, txt) == {p \in 1..Len(seq) : seq[p].ev = ev /\ seq[p].txt = txt}

\* C8: printMetrics leaves out every empty category in both modes: in text
\* mode the heading (and block) of a category is printed iff its sequence is
\* non-empty, and no JSON heading; in JSON mode no key of an empty category is
\* in the mapping; with all four empty, text mode prints nothing and JSON mode
\* prints the JSON heading and an empty mapping.
C8_EmptyCategoriesOmitted ==
    [][pc = "printMetrics" =>
        LET new == Printed
            allEmpty == \A c \in 1..4 : Len(agg[Categories[c]]) = 0
        IN  /\ \A c \in 1..4 :
                /\ (Places(new, "heading", Headings[c]) # {})
                        <=> (~formatJSON /\ Len(agg[Categories[c]]) # 0)
                /\ (Places(new, "block", Headings[c]) # {})
                        <=> (~formatJSON /\ Len(agg[Categories[c]]) # 0)
                /\ \A p \in 1..Len(new) : \A pr \in new[p].obj :
                        pr[1] = Keys[c] => Len(agg[Categories[c]]) # 0
            /\ ~formatJSON => Places(new, "heading", "JSON") = {}
            /\ (allEmpty /\ ~formatJSON) => new = <<>>
            /\ (allEmpty /\ formatJSON) =>
                    /\ Len(new) = 2
                    /\ new[1].ev = "heading" /\ new[1].txt = "JSON"
                    /\ new[2].ev = "object" /\ new[2].obj = {}
    ]_vars

\* JSON mode, all four categories empty: the JSON heading and an empty mapping
C8_Witness ==
    /\ pc = "GetCheckStatus" /\ formatJSON
    /\ Len(out) = 2
    /\ out[1].ev = "heading" /\ out[1].txt = "JSON"
    /\ out[2].ev = "object" /\ out[2].obj = {}

\* C9: in JSON mode printMetrics prints exactly two things: the JSON heading,
\* then one mapping whose keys are those of metrics, sketches, service_checks,
\* events whose category (series, sketches, service checks, events) is
\* non-empty, each key with the sequence of its category; no category heading
\* or block is printed.
C9_JSONOneMapping ==
    [][(pc = "printMetrics" /\ formatJSON) =>
        LET new == Printed
        IN  /\ Len(new) = 2
            /\ new[1].ev = "heading" /\ new[1].txt = "JSON"
            /\ new[2].ev = "object"
            /\ new[2].obj = {<<Keys[c], agg[Categories[c]]>> :
                                c \in {d \in 1..4 : Len(agg[Categories[d]]) # 0}}
    ]_vars

\* JSON mode, series only: {"metrics": [...]}, the other keys absent
C9_Witness ==
    /\ pc = "GetCheckStatus" /\ formatJSON
    /\ Len(out) = 2
    /\ out[2].ev = "object"
    /\ \E seq \in SnapshotSeqs : Len(seq) > 0 /\ out[2].obj = {<<"metrics", seq>>}


(* ------------------------------------------------------------------ *)
(* Claims about the command, under Spec                                *)
(* ------------------------------------------------------------------ *)
\* the positions of out holding an event of instance k that satisfies Test
InstPlaces(k, Test(_)) == {p \in 1..Len(out) : out[p].inst = k /\ Test(out[p])}
IsAnyReturn(e) == e.ev = "run_return"
IsStatus(e) == e.ev = "status"

\* C6: within one check instance the runs are strictly sequential (run 0 is
\* called first; run j+1 is called right after run j returned, or right after
\* the pause that followed that return; a run returns right after its own
\* call), the outcomes are added to the stats in run order, and whatever
\* printMetrics prints for the instance comes after a sleep of checkDelay ms
\* that itself comes after every call and return of Run of that instance, all
\* of the instance's runs having returned by then.
C6_SequentialRunsThenDelayThenRender ==
    /\ \A k \in 1..Len(cs) :
        LET tr == RunTrace(k)
        IN  \A p \in 1..Len(tr) :
                /\ tr[p].ev = "run_call" =>
                    \/ p = 1 /\ tr[p].n = 0
                    \/ p > 1 /\ IsReturn(tr[p - 1], tr[p].n - 1)
                    \/ p > 2 /\ IsPause(tr[p - 1]) /\ IsReturn(tr[p - 2], tr[p].n - 1)
                /\ tr[p].ev = "run_return" => (p > 1 /\ IsCall(tr[p - 1], tr[p].n))
                /\ IsPause(tr[p]) => (p > 1 /\ tr[p - 1].ev = "run_return")
    /\ \A j \in 1..Len(s) : s[j].run = j - 1
    /\ \A p \in 1..Len(out) :
        IsRender(out[p]) =>
            \E q \in 1..(p - 1) :
                /\ IsDelay(out[q]) /\ out[q].inst = out[p].inst /\ out[q].n = checkDelay
                /\ \A r \in InstPlaces(out[p].inst, IsRunEv) : r < q
                /\ Cardinality(InstPlaces(out[p].inst, IsAnyReturn))
                        = Max0(IF checkRate THEN 2 ELSE checkTimes)

\* two runs with a pause between them, then the delay, then a printed block
C6_Witness ==
    /\ pc = "GetCheckStatus" /\ ~checkRate /\ checkTimes = 2 /\ checkPause = 50
    /\ Len(s) = 2
    /\ InstPlaces(idx, IsPause) # {}
    /\ InstPlaces(idx, IsRender) # {}

\* C7: once at least one instance matched, the command never returns an
\* error: it returns nil, and only after the status block of every instance
\* was printed, whatever Run returned, whatever advisories were printed and
\* whatever metrics never reached the render.
C7_NoCommandFailureAfterMatch ==
    Len(cs) > 0 =>
        /\ ret \in {"none", "nil"}
        /\ pc = "done" =>
            /\ ret = "nil"
            /\ \A k \in 1..Len(cs) : Cardinality(InstPlaces(k, IsStatus)) = 1

\* the command returned nil although a run failed, an override advisory was
\* printed and a submitted metric never reached the buffer
C7_Witness ==
    /\ pc = "done" /\ Len(cs) > 0 /\ ret = "nil"
    /\ \E j \in 1..Len(s) : s[j].err
    /\ PauseAdvisories # {}
    /\ inflight # EmptyAgg

DiagKinds == {"config_error", "loader_error", "loader_line", "resolve_warning", "warning_line"}

\* C10: when no instance matches, the command ends with the error "no valid
\* check found"; by then it has printed exactly the config error, the loader
\* errors (one line per loader) and the resolve warnings (one line per
\* warning) recorded for checkName, those of other checks left out, and it has
\* called no Run, slept no delay, rendered no metrics and printed no status.
C10_NoValidCheckFound ==
    /\ [][(pc = "Resolve" /\ cs' = <<>>) =>
            (pc' = "done" /\ ret' = "err: no valid check found")]_vars
    /\ [](ret = "err: no valid check found" =>
            /\ pc = "done" /\ cs = <<>>
            /\ \A p \in 1..Len(out) : out[p].ev \in DiagKinds
            /\ Cardinality(Places(out, "config_error", checkName))
                    = (IF checkName \in diag.cfgErrs THEN 1 ELSE 0)
            /\ Cardinality(Places(out, "loader_error", checkName))
                    = (IF checkName \in DOMAIN diag.ldrErrs THEN 1 ELSE 0)
            /\ Cardinality(Places(out, "resolve_warning", checkName))
                    = (IF checkName \in DOMAIN diag.warns THEN 1 ELSE 0)
            /\ LET lines == {p \in 1..Len(out) : out[p].ev = "loader_line"}
                   loaders == IF checkName \in DOMAIN diag.ldrErrs
                                 THEN diag.ldrErrs[checkName] ELSE {}
               IN  /\ {out[p].txt : p \in lines} = loaders
                   /\ Cardinality(lines) = Cardinality(loaders)
            /\ Cardinality({p \in 1..Len(out) : out[p].ev = "warning_line"})
                    = (IF checkName \in DOMAIN diag.warns THEN diag.warns[checkName] ELSE 0)
            /\ \A p \in 1..Len(out) :
                    out[p].ev \in {"config_error", "loader_error", "resolve_warning"}
                        => out[p].txt = checkName)

\* the error was returned after a config error, two loader errors and a
\* resolve warning of checkName were printed, another check having errors too
C10_Witness ==
    /\ pc = "done" /\ ret = "err: no valid check found"
    /\ diag.cfgErrs = CheckNames
    /\ Places(out, "config_error", checkName) # {}
    /\ Cardinality({p \in 1..Len(out) : out[p].ev = "loader_line"}) = 2
    /\ {p \in 1..Len(out) : out[p].ev = "warning_line"} # {}


(* ------------------------------------------------------------------ *)
(* Claims about the identities, under SpecID                           *)
(* ------------------------------------------------------------------ *)
HasColon(str) == \E p \in 1..Len(str) : str[p] = ":"
Built == ident.stage \in {"built", "named"}

\* C14: BuildID returns name ":" extra ":" hash when extra is non-empty and
\* name ":" hash when it is empty, hash being the hexadecimal digits (no
\* leading zeros, 1 to 16 of them) of the one FNV-1 hash of the bytes of
\* instance followed by those of initConfig; it returns a value for every
\* argument.  (That equal arguments give equal identities is what being a
\* function of the arguments means; it is not a separate check.)
C14_IdentityFormat ==
    Built =>
        LET hash == Hex(Write(New64, ident.instance \o ident.initConfig))
        IN  /\ Len(hash) \in 1..16
            /\ \A p \in 1..Len(hash) : \E d \in 1..16 : hash[p] = HexDigits[d]
            /\ ident.extra # <<>> =>
                    ident.id = ident.name \o <<":">> \o ident.extra \o <<":">> \o hash
            /\ ident.extra = <<>> => ident.id = ident.name \o <<":">> \o hash

C14_Witness ==
    /\ ident.stage = "built"
    /\ ident.extra = <<"a">> /\ ident.name = <<"a", "a">>
    /\ ident.instance = <<97>> /\ ident.initConfig = <<98>>
    /\ SubSeq(ident.id, 1, 5) = <<"a", "a", ":", "a", ":">>

\* C15: for every name without ":", and every instance, initConfig and extra,
\* IDToCheckName(BuildID(name, instance, initConfig, extra)) = name.
C15_PrefixRoundTrip ==
    (ident.stage = "named" /\ ~HasColon(ident.name)) => ident.back = ident.name

\* an extra ID with a ":" in it, and the name still comes back
C15_Witness ==
    /\ ident.stage = "named"
    /\ ident.name = <<"a", "a">> /\ ident.extra = <<":", "a">>
    /\ ident.back = <<"a", "a">>

\* what stands in id between name ":" and ":" hash
MiddleSegment(id, name, h) == SubSeq(id, Len(name) + 2, Len(id) - Len(Hex(h)) - 1)

\* C16: for the same name, instance and initConfig, any other non-empty extra
\* gives another identity, and the two differ in what stands between the name
\* prefix and the trailing hash.
C16_ExtraDisambiguates ==
    (Built /\ ident.extra # <<>>) =>
        \A extra2 \in Strs \ {<<>>, ident.extra} :
            LET id2 == FormatID(ident.name, extra2, ident.sum)
            IN  /\ id2 # ident.id
                /\ MiddleSegment(id2, ident.name, ident.sum)
                        # MiddleSegment(ident.id, ident.name, ident.sum)

C16_Witness ==
    /\ ident.stage = "built"
    /\ ident.extra = <<"a">>
    /\ MiddleSegment(ident.id, ident.name, ident.sum) = <<"a">>
    /\ FormatID(ident.name, <<"a", "a">>, ident.sum) # ident.id

\* C20: for the same instance and initConfig, when neither name nor extra has
\* a ":", every other pair (name2, extra2) without ":" gives another identity,
\* also when one of the two extras is empty.
C20_InjectiveInNameAndExtra ==
    (Built /\ ~HasColon(ident.name) /\ ~HasColon(ident.extra)) =>
        \A name2 \in Strs, extra2 \in Strs :
            (~HasColon(name2) /\ ~HasColon(extra2)
                /\ <<name2, extra2>> # <<ident.name, ident.extra>>)
            => FormatID(name2, extra2, ident.sum) # ident.id

\* name "a" with extra "a", against name "aa" with no extra
C20_Witness ==
    /\ ident.stage = "built"
    /\ ident.name = <<"a">> /\ ident.extra = <<"a">>
    /\ FormatID(<<"a", "a">>, <<>>, ident.sum) # ident.id


(* ------------------------------------------------------------------ *)
(* Claims about the setup and the end of the command, under Spec       *)
(* ------------------------------------------------------------------ *)
SetupFailures ==
    {"Cannot setup config, exiting", "Cannot setup logger, exiting",
     "Cannot get hostname, exiting"}
HelpPlaces == Places(out, "help", "")
\* where a setup failure was printed
FailurePlaces == {p \in 1..Len(out) : out[p].ev = "print" /\ out[p].txt \in SetupFailures}
\* no instance was resolved, run, rendered or reported
NothingDone ==
    /\ cs = <<>> /\ idx = 0 /\ s = NewStats /\ runErrs = <<>>
    /\ inflight = EmptyAgg /\ agg = EmptyAgg
    /\ \A p \in 1..Len(out) : out[p].ev \in {"help", "print"} /\ out[p].inst = 0

\* C11 as stated: invoked without a check name, the command prints the help
\* and returns without error, and no check is resolved, run or rendered.
C11_AsStated ==
    (Len(args) = 0 /\ pc = "done") =>
        /\ ret = "nil"
        /\ HelpPlaces # {}
        /\ NothingDone

\* C11 amended: invoked without a check name, the command never gets to the
\* hostname or to the resolution, and no check is resolved, run or rendered;
\* when SetupConfig and SetupLogger succeeded it prints the help, and only
\* the help, and returns nil; when one of them failed it returns that error
\* and the help is not printed.
C11_Amended ==
    Len(args) = 0 =>
        /\ pc \in {"SetupConfig", "SetupLogger", "Args", "done"}
        /\ checkName = ""
        /\ NothingDone
        /\ pc = "done" =>
            \/ ret = "nil" /\ out = <<Ev("help", "", 0)>>
            \/ ret \in {"err: config", "err: logger"} /\ HelpPlaces = {}
                    /\ Len(out) = 1 /\ FailurePlaces = {1}

C11_Witness ==
    /\ Len(args) = 0 /\ pc = "done" /\ ret = "nil"
    /\ HelpPlaces = {1} /\ Len(out) = 1 /\ cs = <<>>

FailureOf(txt) ==
    CASE txt = "Cannot setup config, exiting" -> "err: config"
      [] txt = "Cannot setup logger, exiting" -> "err: logger"
      [] txt = "Cannot get hostname, exiting" -> "err: hostname"

\* C12: a failure of SetupConfig, SetupLogger or GetHostname makes the command
\* return that error at once: its message is the only thing printed, the
\* command is over with that error in the very state the message appears in,
\* no later setup step was taken (the name is not even read after a config or
\* logger failure) and no check is resolved, run or rendered.
C12_SetupFailureReturnsAtOnce ==
    /\ \A p \in FailurePlaces :
        /\ pc = "done"
        /\ ret = FailureOf(out[p].txt)
        /\ Len(out) = 1
        /\ NothingDone
        /\ ret \in {"err: config", "err: logger"} => checkName = ""
    /\ ret \in {"err: config", "err: logger", "err: hostname"} => FailurePlaces = {1}

C12_Witness ==
    /\ pc = "done" /\ ret = "err: hostname" /\ checkName = "cpu"
    /\ out = <<Ev("print", "Cannot get hostname, exiting", 0)>>
    /\ cs = <<>>

IsCallEv(e) == e.ev = "run_call"
OncePlaces == Places(out, "advisory", "Check has run only once")

\* C13 as stated: the "Check has run only once" advisory is printed when, and
\* only when, every instance the command handled was run exactly once, rate
\* mode is off and the output is text; never in rate mode, in JSON mode, or
\* when a check was run a number of times other than one.
C13_AsStated ==
    (pc = "done" /\ Len(cs) > 0) =>
        (OncePlaces # {}
            <=> /\ ~checkRate
                /\ ~formatJSON
                /\ \A k \in 1..Len(cs) : Cardinality(InstPlaces(k, IsCallEv)) = 1)

(* ------------------------------------------------------------------ *)
(* Claims about the render and the instances, under Spec               *)
(* ------------------------------------------------------------------ *)
Range(seq) == {seq[p] : p \in 1..Len(seq)}
\* the metrics shown in the blocks and mappings printed so far
RenderedItems ==
    UNION {Range(out[p].data) : p \in {q \in 1..Len(out) : out[q].ev = "block"}}
    \cup UNION {Range(pr[2]) : pr \in UNION {out[p].obj : p \in 1..Len(out)}}
InFlightItems == UNION {Range(inflight[c]) : c \in DOMAIN inflight}

IsInstEv(e) == e.inst > 0
IsObject(e) == e.ev = "object"
IsHeading(e) == e.ev = "heading"

\* C18: the instances are handled one at a time: in the output everything of
\* instance k comes before everything of instance k+1, and instance k+1 has
\* nothing before the status block of instance k; within an instance the runs
\* come first, then the one delay, then the render, then the one status
\* block; the buffer is rendered once per instance (what printMetrics prints
\* is one unbroken stretch, with no heading twice and, in JSON mode, exactly
\* one mapping).
C18_OneInstanceAtATime ==
    /\ \A p, q \in 1..Len(out) :
        (p < q /\ IsInstEv(out[p]) /\ IsInstEv(out[q])) => out[p].inst <= out[q].inst
    /\ \A p \in 1..Len(out) : out[p].inst \in 0..Len(cs)
    /\ \A k \in 1..Len(cs) :
        LET runs == InstPlaces(k, IsRunEv)
            delays == InstPlaces(k, IsDelay)
            renders == InstPlaces(k, IsRender)
            statuses == InstPlaces(k, IsStatus)
        IN  /\ Cardinality(delays) <= 1
            /\ Cardinality(statuses) <= 1
            /\ \A r \in runs, d \in delays : r < d
            /\ \A d \in delays, r \in renders : d < r
            /\ \A r \in renders, st \in statuses : r < st
            /\ renders # {} => delays # {}
            /\ statuses # {} => delays # {}
            /\ \A r1, r2 \in renders : \A p \in r1..r2 : p \in renders
            /\ \A r1, r2 \in renders :
                (IsHeading(out[r1]) /\ IsHeading(out[r2]) /\ out[r1].txt = out[r2].txt)
                    => r1 = r2
            /\ Cardinality(InstPlaces(k, IsObject)) <= 1
            /\ (formatJSON /\ statuses # {}) => Cardinality(InstPlaces(k, IsObject)) = 1
            /\ (k < Len(cs) /\ InstPlaces(k + 1, IsInstEv) # {}) => statuses # {}
            /\ pc = "done" => (Cardinality(delays) = 1 /\ Cardinality(statuses) = 1)

\* two instances, each run, rendered and reported, the second after the first
C18_Witness ==
    /\ pc = "done" /\ Len(cs) = 2
    /\ \A k \in 1..2 :
        /\ InstPlaces(k, IsAnyReturn) # {}
        /\ InstPlaces(k, IsRender) # {}
        /\ InstPlaces(k, IsStatus) # {}
    /\ \A st \in InstPlaces(1, IsStatus), r \in InstPlaces(2, IsRunEv) : st < r

(* ------------------------------------------------------------------ *)
(* Termination of runCheck, under SpecRunFair                          *)
(* ------------------------------------------------------------------ *)
\* C19 as stated: runCheck always terminates, and it has returned only with
\* exactly the effective number of outcomes recorded.
C19_AsStated ==
    /\ <>Returned
    /\ [](Returned => Len(s) = EffTimes(checkRate, checkTimes))

\* C19 amended: every call of Run returning, runCheck always terminates; it
\* has returned only with exactly max(0, effective times) outcomes recorded,
\* and never more than that are recorded on the way.
C19_Amended ==
    /\ <>Returned
    /\ [](Returned => Len(s) = Max0(EffTimes(checkRate, checkTimes)))
    /\ [](Len(s) <= Max0(EffTimes(checkRate, checkTimes)))

C19_Witness ==
    /\ Returned /\ ~checkRate /\ checkTimes = 3 /\ checkPause = 50
    /\ Len(s) = 3 /\ i = 3

====
